---- MODULE Spec2Model ----
(***************************************************************************)
(* Secondary-index maintenance of lib/src/doc/index.rs:                    *)
(* Document::index, build_opt_values, Indexable, Combinator and its value  *)
(* iterators, and the unique / non-unique writers of IndexOperation.       *)
(***************************************************************************)
EXTENDS Integers, Sequences, FiniteSets, TLC

\* ------------------------------------------------------------------------
\* Bounds of the model
\* ------------------------------------------------------------------------
\* longest array value of a column
MaxArrLen == 2
\* most columns of a Combinator source
MaxCols == 2
\* most calls of Combinator::next in one run of the Combinator
MaxSteps == 6
\* most tuples a writer draws from one Combinator before the expansion is
\* taken to be endless
MaxYield == 6

\* usize::MAX. TLC integers are 32 bits wide, so the largest of them stands
\* for 2^64 - 1; all that matters is that no reachable `current` equals it.
UsizeMax == 2147483647

\* ------------------------------------------------------------------------
\* Values (sql::Value) : NONE, NULL, a strand, or an array of those
\* ------------------------------------------------------------------------
None == "NONE"
Null == "NULL"
Strands == {"Tobie", "piano", "violin"}
Atoms == Strands \cup {None, Null}

Scalar(a) == [arr |-> FALSE, v |-> <<a>>]
Arr(s) == [arr |-> TRUE, v |-> s]

SeqsUpTo(S, n) == UNION {[1..k -> S] : k \in 0..n}

\* ------------------------------------------------------------------------
\* ValuesIterator implementations
\* ------------------------------------------------------------------------
MultiValuesIterator(vals) ==
    [multi |-> TRUE, val |-> Arr(vals), done |-> FALSE, current |-> 0]

SingleValueIterator(v) ==
    [multi |-> FALSE, val |-> v, done |-> FALSE, current |-> 0]

\* vals.len() - 1 on usize: wraps in a build without overflow checks
WrappingSub1(n) == IF n = 0 THEN UsizeMax ELSE n - 1

\* ValuesIterator::next : the iterator afterwards, the returned flag, and
\* whether the call panicked (subtraction overflow with overflow checks on)
IteratorNext(it, checks) ==
    IF ~it.multi THEN [it |-> it, r |-> FALSE, panic |-> FALSE]
    ELSE IF it.done THEN [it |-> it, r |-> FALSE, panic |-> FALSE]
    ELSE IF Len(it.val.v) = 0 /\ checks
         THEN [it |-> it, r |-> FALSE, panic |-> TRUE]
    ELSE IF it.current = WrappingSub1(Len(it.val.v))
         THEN [it |-> [it EXCEPT !.done = TRUE], r |-> FALSE, panic |-> FALSE]
    ELSE [it |-> [it EXCEPT !.current = it.current + 1], r |-> TRUE,
          panic |-> FALSE]

\* a current that gives the first element of an array a single-value
\* iterator holds
IteratorCurrent_FirstOfArray(it) ==
    IF ~it.multi
    THEN IF it.val.arr /\ Len(it.val.v) > 0 THEN Scalar(it.val.v[1])
         ELSE it.val
    ELSE IF it.current < Len(it.val.v) THEN Scalar(it.val.v[it.current + 1])
    ELSE Scalar(Null)

\* ValuesIterator::current
IteratorCurrent(it) ==
    IF ~it.multi THEN it.val
    ELSE IF it.current < Len(it.val.v) THEN Scalar(it.val.v[it.current + 1])
    ELSE Scalar(Null)

\* ------------------------------------------------------------------------
\* Combinator
\* ------------------------------------------------------------------------
\* a Combinator that expands the arrays of the flattened columns
CombinatorNew_FlattenExpands(source) ==
    [iterators |-> [i \in 1..Len(source) |->
                      IF source[i].f /\ source[i].v.arr
                      THEN MultiValuesIterator(source[i].v.v)
                      ELSE SingleValueIterator(source[i].v)],
     has_next |-> TRUE]

\* Combinator::new over a source of (value, flatten) pairs
CombinatorNew(source) ==
    [iterators |-> [i \in 1..Len(source) |->
                      IF ~source[i].f /\ source[i].v.arr
                      THEN MultiValuesIterator(source[i].v.v)
                      ELSE SingleValueIterator(source[i].v)],
     has_next |-> TRUE]

\* the loop of Combinator::next from iterator i on
RECURSIVE CombinatorLoop(_, _, _, _, _)
CombinatorLoop(its, i, o, has_next, checks) ==
    IF i > Len(its)
    THEN [iterators |-> its, o |-> o, has_next |-> has_next, panic |-> FALSE]
    ELSE LET o2 == Append(o, IteratorCurrent(its[i]))
         IN IF has_next
            THEN CombinatorLoop(its, i + 1, o2, has_next, checks)
            ELSE LET n == IteratorNext(its[i], checks)
                 IN IF n.panic
                    THEN [iterators |-> its, o |-> o2, has_next |-> FALSE,
                          panic |-> TRUE]
                    ELSE CombinatorLoop([its EXCEPT ![i] = n.it], i + 1, o2,
                                        n.r, checks)

\* what Combinator::next returns after its loop l: the combinator
\* afterwards, whether Some was returned, the item, and whether the call
\* panicked
CombinatorItem(l) ==
    [c |-> [iterators |-> l.iterators, has_next |-> l.has_next],
     some |-> ~l.panic, item |-> l.o, panic |-> l.panic]

\* Combinator::next
CombinatorNext(c, checks) ==
    IF ~c.has_next
    THEN [c |-> c, some |-> FALSE, item |-> <<>>, panic |-> FALSE]
    ELSE CombinatorItem(CombinatorLoop(c.iterators, 1, <<>>, FALSE, checks))

\* ------------------------------------------------------------------------
\* Options, documents, index definitions
\* ------------------------------------------------------------------------
\* Option<T> as a sequence of at most one element
NoneOpt == <<>>
Some(x) == <<x>>

Rids == {"r1", "r2"}

NameValues == {Scalar("Tobie"), Scalar(Null)}
InstrumentValues ==
    {Scalar("piano"), Scalar(None), Arr(<<>>), Arr(<<"piano", "violin">>),
     Arr(<<"piano", "piano">>)}

\* the documents a record view can hold
Docs == [name : NameValues, instrument : InstrumentValues]

\* a column idiom: the field it reads and whether its last part is
\* Part::Flatten
Col(field, flatten) == [field |-> field, flatten |-> flatten]

\* DefineIndexStatement
DefineIndex(name, index, cols) ==
    [name |-> name, what |-> "person", index |-> index, cols |-> cols]

\* the index definitions of the table, one list per schema
Schemas ==
    { << DefineIndex("uniq_name", "Uniq", <<Col("name", FALSE)>>) >>,
      << DefineIndex("uniq_both", "Uniq",
                     <<Col("name", FALSE), Col("instrument", FALSE)>>) >>,
      << DefineIndex("idx_flat", "Idx",
                     <<Col("name", FALSE), Col("instrument", TRUE)>>) >>,
      << DefineIndex("idx_both", "Idx",
                     <<Col("name", FALSE), Col("instrument", FALSE)>>) >>,
      << DefineIndex("uniq_instr", "Uniq", <<Col("instrument", TRUE)>>),
         DefineIndex("idx_name", "Idx", <<Col("name", FALSE)>>) >> }

\* ------------------------------------------------------------------------
\* Textual form of values (Display of Value and Array)
\* ------------------------------------------------------------------------
AtomToString(a) == IF a \in Strands THEN "'" \o a \o "'" ELSE a

RECURSIVE JoinAtoms(_, _)
JoinAtoms(s, i) ==
    IF i > Len(s) THEN ""
    ELSE (IF i > 1 THEN ", " ELSE "") \o AtomToString(s[i])
            \o JoinAtoms(s, i + 1)

ValueToString(v) ==
    IF v.arr THEN "[" \o JoinAtoms(v.v, 1) \o "]" ELSE AtomToString(v.v[1])

RECURSIVE JoinValues(_, _)
JoinValues(t, i) ==
    IF i > Len(t) THEN ""
    ELSE (IF i > 1 THEN ", " ELSE "") \o ValueToString(t[i])
            \o JoinValues(t, i + 1)

ArrayToString(t) == "[" \o JoinValues(t, 1) \o "]"

\* Array::is_all_none_or_null
is_all_none_or_null(t) ==
    \A i \in 1..Len(t) : ~t[i].arr /\ t[i].v[1] \in {None, Null}

\* ------------------------------------------------------------------------
\* Storage: the conditional operations of kvs::Transaction
\* ------------------------------------------------------------------------
\* storage is a set of entries [k |-> key, v |-> record id], one per key
Get(kv, key) ==
    IF \E e \in kv : e.k = key
    THEN Some((CHOOSE e \in kv : e.k = key).v)
    ELSE NoneOpt

\* putc(key, val, None): put only if the key is absent
Putc(kv, key, val) ==
    IF Get(kv, key) = NoneOpt
    THEN [kv |-> kv \cup {[k |-> key, v |-> val]}, err |-> "Ok"]
    ELSE [kv |-> kv, err |-> "TxConditionNotMet"]

\* delc(key, Some(val)): delete only if the key holds val
Delc(kv, key, val) ==
    IF Get(kv, key) = Some(val)
    THEN [kv |-> kv \ {[k |-> key, v |-> val]}, err |-> "Ok"]
    ELSE [kv |-> kv, err |-> "TxConditionNotMet"]

\* ------------------------------------------------------------------------
\* Results (Result<(), Error>, a panic, or a call that does not return)
\* ------------------------------------------------------------------------
Result(t) == [t |-> t, thing |-> "", index |-> "", value |-> ""]
Ok == Result("Ok")
Panic == Result("Panic")
Diverge == Result("Diverge")
\* a storage error other than TxConditionNotMet
StorageError == Result("Tx")
\* Error::FeatureNotYetImplemented, its feature in the field value
FeatureNotYetImplemented(feature) ==
    [t |-> "FeatureNotYetImplemented", thing |-> "", index |-> "",
     value |-> feature]

\* ------------------------------------------------------------------------
\* build_opt_values, Indexable
\* ------------------------------------------------------------------------
build_opt_values(ix, doc) ==
    IF doc = NoneOpt THEN NoneOpt
    ELSE Some([i \in 1..Len(ix.cols) |-> doc[1][ix.cols[i].field]])

Indexable(vals, ix) ==
    [i \in 1..Len(vals) |-> [v |-> vals[i], f |-> ix.cols[i].flatten]]

\* the items `for o in i` draws from the Combinator of an Indexable: the
\* tuples, and how the loop ends ("done", "panic", or "more" when MaxYield
\* items were drawn and the Combinator still has a next one)
RECURSIVE Drain(_, _, _, _)
DrainItem(n, acc, fuel, checks) ==
    IF n.panic THEN [tuples |-> acc, end |-> "panic"]
    ELSE IF ~n.some THEN [tuples |-> acc, end |-> "done"]
    ELSE IF fuel = 0 THEN [tuples |-> acc, end |-> "more"]
    ELSE Drain(n.c, Append(acc, n.item), fuel - 1, checks)

Drain(c, acc, fuel, checks) ==
    DrainItem(CombinatorNext(c, checks), acc, fuel, checks)

Expand(vals, ix, checks) ==
    Drain(CombinatorNew(Indexable(vals, ix)), <<>>, MaxYield, checks)

\* `if let Some(o) = self.o.take()`: the expansion of the values, if any
ExpandTaken(vals, ix, checks) ==
    IF vals = NoneOpt THEN [tuples |-> <<>>, end |-> "done"]
    ELSE Expand(vals[1], ix, checks)

\* ------------------------------------------------------------------------
\* IndexOperation
\* ------------------------------------------------------------------------
get_unique_index_key(ix, v) ==
    [tb |-> ix.what, ix |-> ix.name, fd |-> v, id |-> NoneOpt]

\* a key of a non-unique index without the record id
get_non_unique_index_key_NoId(ix, v, rid) ==
    [tb |-> ix.what, ix |-> ix.name, fd |-> v, id |-> NoneOpt]

get_non_unique_index_key(ix, v, rid) ==
    [tb |-> ix.what, ix |-> ix.name, fd |-> v, id |-> Some(rid)]

err_index_exists(ix, rid, n) ==
    [t |-> "IndexExists", thing |-> rid, index |-> ix.name,
     value |-> IF Len(n) = 1 THEN ValueToString(n[1]) ELSE ArrayToString(n)]

\* a storage call
Op(op, key) == [op |-> op, key |-> key]

\* a step of Document::index that is not an index storage call, on
\* definition ix ("" when it is on none)
Ev(e, ix) == [e |-> e, ix |-> ix]

\* the transaction handle: the index storage, and which of the storage
\* calls to come raises a storage error other than TxConditionNotMet (the
\* fault-th one; none when fault is 0)
Txn(kv, fault) == [kv |-> kv, fault |-> fault]

\* a writer at its start: the storage, the fault to come, the storage calls
\* and other steps made, the result so far
Start(run) ==
    [kv |-> run.kv, fault |-> run.fault, ops |-> <<>>, ev |-> <<>>,
     res |-> Ok]

\* the storage call about to be made raises the storage error
Fails(st) == st.fault = 1

\* the fault to come once one more storage call is made
Tick(st) == IF st.fault > 0 THEN st.fault - 1 ELSE 0

\* a delete loop that leaves the old index data in place
DeleteLoop_KeepOld(st, keys, i, rid) == st

\* a delete that removes the entry whoever owns it
DeleteOne_Unconditional(st, key, rid) ==
    IF Fails(st)
    THEN [st EXCEPT !.ops = Append(st.ops, Op("delc", key)),
                    !.fault = Tick(st), !.res = StorageError]
    ELSE [st EXCEPT !.kv = {e \in st.kv : e.k # key},
                    !.ops = Append(st.ops, Op("delc", key)),
                    !.fault = Tick(st)]

\* one delc of the delete loop: TxConditionNotMet is swallowed, any other
\* error is returned
DeleteOne(st, key, rid) ==
    IF Fails(st)
    THEN [st EXCEPT !.ops = Append(st.ops, Op("delc", key)),
                    !.fault = Tick(st), !.res = StorageError]
    ELSE [st EXCEPT !.kv = Delc(st.kv, key, rid).kv,
                    !.ops = Append(st.ops, Op("delc", key)),
                    !.fault = Tick(st)]

\* the delete loop of both writers over the keys of the old tuples
RECURSIVE DeleteLoop(_, _, _, _)
DeleteLoop(st, keys, i, rid) ==
    IF i > Len(keys) \/ st.res # Ok THEN st
    ELSE DeleteLoop(DeleteOne(st, keys[i], rid), keys, i + 1, rid)

\* the putc of the insert loop succeeded
PutDone(st, key, rid) ==
    [st EXCEPT !.kv = Putc(st.kv, key, rid).kv,
               !.ops = Append(st.ops, Op("putc", key)),
               !.fault = Tick(st)]

\* the putc of the insert loop returned an error (st is the writer after
\* it): run.get(key).await?.unwrap(), owner the record passed on to
\* err_index_exists
GetAfterPutErr(st, ix, key, n, owner) ==
    IF Fails(st)
    THEN [st EXCEPT !.ops = Append(st.ops, Op("get", key)),
                    !.fault = Tick(st), !.res = StorageError]
    ELSE [st EXCEPT !.ops = Append(st.ops, Op("get", key)),
                    !.fault = Tick(st),
                    !.res = IF owner = NoneOpt THEN Panic
                            ELSE err_index_exists(ix, owner[1], n)]

\* the writer after a putc that returned an error
PutErr(st, key) ==
    [st EXCEPT !.ops = Append(st.ops, Op("putc", key)), !.fault = Tick(st)]

\* the failed putc reported with the record being written as the owner
PutOrExists_OwnRid(st, ix, key, n, rid) ==
    IF ~Fails(st) /\ Putc(st.kv, key, rid).err = "Ok"
    THEN PutDone(st, key, rid)
    ELSE GetAfterPutErr(PutErr(st, key), ix, key, n, Some(rid))

\* the body of the insert loop of both writers for one key: any error of
\* putc leads to get and err_index_exists
PutOrExists(st, ix, key, n, rid) ==
    IF ~Fails(st) /\ Putc(st.kv, key, rid).err = "Ok"
    THEN PutDone(st, key, rid)
    ELSE GetAfterPutErr(PutErr(st, key), ix, key, n, Get(st.kv, key))

\* how a loop over an expansion ends once its items are used up
EndOfLoop(st, end) ==
    IF st.res # Ok THEN st
    ELSE IF end = "panic" THEN [st EXCEPT !.res = Panic]
    ELSE IF end = "more" THEN [st EXCEPT !.res = Diverge]
    ELSE st

\* "Delete the old index data" of index_unique, e the expansion of o
UniqueDelete(st, ix, e, rid) ==
    EndOfLoop(DeleteLoop(st,
                  [i \in 1..Len(e.tuples) |->
                       get_unique_index_key(ix, e.tuples[i])], 1, rid),
              e.end)

\* an insert loop of the unique writer that does not pass over all-null
\* tuples
RECURSIVE UniqueInsertLoop_NoFilter(_, _, _, _, _)
UniqueInsertLoop_NoFilter(st, ix, tuples, i, rid) ==
    IF i > Len(tuples) \/ st.res # Ok THEN st
    ELSE UniqueInsertLoop_NoFilter(
             PutOrExists(st, ix, get_unique_index_key(ix, tuples[i]),
                         tuples[i], rid),
             ix, tuples, i + 1, rid)

\* the insert loop of the unique writer
RECURSIVE UniqueInsertLoop(_, _, _, _, _)
UniqueInsertLoop(st, ix, tuples, i, rid) ==
    IF i > Len(tuples) \/ st.res # Ok THEN st
    ELSE IF is_all_none_or_null(tuples[i])
         THEN UniqueInsertLoop(st, ix, tuples, i + 1, rid)
    ELSE UniqueInsertLoop(
             PutOrExists(st, ix, get_unique_index_key(ix, tuples[i]),
                         tuples[i], rid),
             ix, tuples, i + 1, rid)

\* "Create the new index data" of index_unique, e the expansion of n
UniqueInsertAll(st, ix, e, rid) ==
    EndOfLoop(UniqueInsertLoop(st, ix, e.tuples, 1, rid), e.end)

\* index_unique after its delete loop, which the `?` leaves on an error
UniqueInsert(st, ix, n, rid, checks) ==
    IF st.res # Ok THEN st
    ELSE UniqueInsertAll(st, ix, ExpandTaken(n, ix, checks), rid)

\* a unique writer that does not delete the old index data
index_unique_NoDelete(run, ix, o, n, rid, checks) ==
    UniqueInsert(Start(run), ix, n, rid, checks)

\* IndexOperation::index_unique on transaction run
index_unique(run, ix, o, n, rid, checks) ==
    UniqueInsert(UniqueDelete(Start(run), ix, ExpandTaken(o, ix, checks), rid),
                 ix, n, rid, checks)

\* "Delete the old index data" of index_non_unique, e the expansion of o
NonUniqueDelete(st, ix, e, rid) ==
    EndOfLoop(DeleteLoop(st,
                  [i \in 1..Len(e.tuples) |->
                       get_non_unique_index_key(ix, e.tuples[i], rid)], 1, rid),
              e.end)

\* an insert loop of the non-unique writer that passes over all-null tuples
RECURSIVE NonUniqueInsertLoop_Filter(_, _, _, _, _)
NonUniqueInsertLoop_Filter(st, ix, tuples, i, rid) ==
    IF i > Len(tuples) \/ st.res # Ok THEN st
    ELSE IF is_all_none_or_null(tuples[i])
         THEN NonUniqueInsertLoop_Filter(st, ix, tuples, i + 1, rid)
    ELSE NonUniqueInsertLoop_Filter(
             PutOrExists(st, ix, get_non_unique_index_key(ix, tuples[i], rid),
                         tuples[i], rid),
             ix, tuples, i + 1, rid)

\* the insert loop of the non-unique writer
RECURSIVE NonUniqueInsertLoop(_, _, _, _, _)
NonUniqueInsertLoop(st, ix, tuples, i, rid) ==
    IF i > Len(tuples) \/ st.res # Ok THEN st
    ELSE NonUniqueInsertLoop(
             PutOrExists(st, ix, get_non_unique_index_key(ix, tuples[i], rid),
                         tuples[i], rid),
             ix, tuples, i + 1, rid)

\* "Create the new index data" of index_non_unique, e the expansion of n
NonUniqueInsertAll(st, ix, e, rid) ==
    EndOfLoop(NonUniqueInsertLoop(st, ix, e.tuples, 1, rid), e.end)

\* index_non_unique after its delete loop
NonUniqueInsert(st, ix, n, rid, checks) ==
    IF st.res # Ok THEN st
    ELSE NonUniqueInsertAll(st, ix, ExpandTaken(n, ix, checks), rid)

\* a non-unique writer that creates the new index data before it deletes
\* the old
index_non_unique_InsertFirst(run, ix, o, n, rid, checks) ==
    NonUniqueDelete(
        NonUniqueInsert(Start(run), ix, n, rid, checks),
        ix, ExpandTaken(o, ix, checks), rid)

\* IndexOperation::index_non_unique on transaction run
index_non_unique(run, ix, o, n, rid, checks) ==
    NonUniqueInsert(
        NonUniqueDelete(Start(run), ix, ExpandTaken(o, ix, checks), rid),
        ix, n, rid, checks)

\* ------------------------------------------------------------------------
\* Document::index
\* ------------------------------------------------------------------------
\* the key base of a full-text index with the argument of a call of its
\* backend: the record, and the values vals when the call has any
FtKey(ix, vals, rid) ==
    [tb |-> ix.what, ix |-> ix.name, fd |-> vals, id |-> Some(rid)]

\* the storage after call op of the full-text backend: index_document
\* stores the values of the record in place of those it held,
\* remove_document removes them, the other calls store nothing
FtApply(store, op, key) ==
    IF op = "index_document"
    THEN {e \in store : ~(e.k.ix = key.ix /\ e.k.id = key.id)}
             \cup {[k |-> key, v |-> key.id[1]]}
    ELSE IF op = "remove_document"
    THEN {e \in store : ~(e.k.ix = key.ix /\ e.k.id = key.id)}
    ELSE store

\* one call of index_full_text on the transaction, followed by `?`: it is
\* not made once an earlier one returned an error
FtCall(st, op, key) ==
    IF st.res # Ok THEN st
    ELSE IF Fails(st)
    THEN [st EXCEPT !.ops = Append(st.ops, Op(op, key)),
                    !.fault = Tick(st), !.res = StorageError]
    ELSE [st EXCEPT !.kv = FtApply(st.kv, op, key),
                    !.ops = Append(st.ops, Op(op, key)),
                    !.fault = Tick(st)]

\* run.get_db_analyzer and FtIndex::new with TreeStoreType::Write
FtOpen(st, ix, rid) ==
    FtCall(FtCall(st, "get_db_analyzer", FtKey(ix, <<>>, rid)),
           "FtIndex::new(Write)", FtKey(ix, <<>>, rid))

\* `if let Some(n) = &self.n` index_document, else remove_document
FtDocument(st, ix, n, rid) ==
    IF n # NoneOpt THEN FtCall(st, "index_document", FtKey(ix, n[1], rid))
    ELSE FtCall(st, "remove_document", FtKey(ix, <<>>, rid))

\* a full-text writer that removes the document when there are no old
\* values and indexes it when there are
index_full_text_ByOld(run, ix, o, n, rid, checks) ==
    FtCall(FtDocument(FtOpen(Start(run), ix, rid), ix, o, rid),
           "finish", FtKey(ix, <<>>, rid))

\* IndexOperation::index_full_text on transaction run
index_full_text(run, ix, o, n, rid, checks) ==
    FtCall(FtDocument(FtOpen(Start(run), ix, rid), ix, n, rid),
           "finish", FtKey(ix, <<>>, rid))

\* "Index operation dispatching" that takes an MTree definition for Idx
Dispatch_NoMTree(run, ix, o, n, rid, checks) ==
    IF ix.index = "Uniq" THEN index_unique(run, ix, o, n, rid, checks)
    ELSE IF ix.index = "Search"
    THEN index_full_text(run, ix, o, n, rid, checks)
    ELSE index_non_unique(run, ix, o, n, rid, checks)

\* "Index operation dispatching"
Dispatch(run, ix, o, n, rid, checks) ==
    IF ix.index = "Uniq" THEN index_unique(run, ix, o, n, rid, checks)
    ELSE IF ix.index = "Idx" THEN index_non_unique(run, ix, o, n, rid, checks)
    ELSE IF ix.index = "Search"
    THEN index_full_text(run, ix, o, n, rid, checks)
    ELSE [Start(run) EXCEPT !.res = FeatureNotYetImplemented("MTree indexing")]

\* "Claim transaction" for definition ix: txn.lock().await
Claim(st, ix) == [st EXCEPT !.ev = Append(st.ev, Ev("lock", ix.name))]

\* the call after the writer w of definition ix, run under the lock: w's
\* storage and result, w's storage calls after the earlier ones, and the
\* lock released as the guard goes out of scope
AfterWriter(st, w, ix) ==
    [kv |-> w.kv, fault |-> w.fault, ops |-> st.ops \o w.ops,
     ev |-> Append(st.ev, Ev("unlock", ix.name)), res |-> w.res]

\* a loop body that updates the index entries only when forced
UpdateEntries_ForcedOnly(st, opt, ix, o, n, rid, checks) ==
    IF opt.force
    THEN AfterWriter(Claim(st, ix),
             Dispatch(Txn(st.kv, st.fault), ix, o, n, rid, checks), ix)
    ELSE st

\* a loop body that updates the index entries whatever the values are
UpdateEntries_Always(st, opt, ix, o, n, rid, checks) ==
    AfterWriter(Claim(st, ix),
        Dispatch(Txn(st.kv, st.fault), ix, o, n, rid, checks), ix)

\* "Update the index entries" for old values o and new values n
UpdateEntries(st, opt, ix, o, n, rid, checks) ==
    IF opt.force \/ o # n
    THEN AfterWriter(Claim(st, ix),
             Dispatch(Txn(st.kv, st.fault), ix, o, n, rid, checks), ix)
    ELSE st

\* "Calculate old values", "Calculate new values" for definition ix
Extracted(st, ix) ==
    [st EXCEPT !.ev = st.ev \o <<Ev("old", ix.name), Ev("new", ix.name)>>]

\* the body of the loop over the index definitions for definition ix
IndexOne(st, opt, ix, initial, current, rid, checks) ==
    UpdateEntries(Extracted(st, ix), opt, ix, build_opt_values(ix, initial),
                  build_opt_values(ix, current), rid, checks)

RECURSIVE IndexLoop(_, _, _, _, _, _, _, _)
IndexLoop(st, opt, ixs, j, initial, current, rid, checks) ==
    IF j > Len(ixs) \/ st.res # Ok THEN st
    ELSE IndexLoop(IndexOne(st, opt, ixs[j], initial, current, rid, checks),
                   opt, ixs, j + 1, initial, current, rid, checks)

\* self.tb(opt, txn): the table metadata is read
ReadTb(st) == [st EXCEPT !.ev = Append(st.ev, Ev("tb", ""))]

\* self.ix(opt, txn): the index definitions are read
ReadIx(st) == [st EXCEPT !.ev = Append(st.ev, Ev("ix", ""))]

\* a Document::index that reads the table and checks for a view first
Document_index_TableFirst(run, opt, tb, initial, current, rid, checks) ==
    IF tb.drop THEN ReadTb(Start(run))
    ELSE IF ~opt.indexes THEN ReadTb(Start(run))
    ELSE IF ~opt.force /\ initial = current THEN ReadTb(Start(run))
    ELSE IndexLoop(ReadIx(ReadTb(Start(run))), opt, tb.ixs, 1, initial,
                   current, rid, checks)

\* Document::index on transaction run: the storage it leaves, the storage
\* calls and other steps it made and what it returned
Document_index(run, opt, tb, initial, current, rid, checks) ==
    IF ~opt.indexes THEN Start(run)
    ELSE IF ~opt.force /\ initial = current THEN Start(run)
    ELSE IF tb.drop THEN ReadTb(Start(run))
    ELSE IndexLoop(ReadIx(ReadTb(Start(run))), opt, tb.ixs, 1, initial,
                   current, rid, checks)

\* ------------------------------------------------------------------------
\* State
\* ------------------------------------------------------------------------
VARIABLES
    overflow_checks, \* the build checks integer overflow (debug profile)
    source,          \* the (value, flatten) pairs the Combinator was built on
    comb,            \* the Combinator
    out,             \* the items returned so far
    calls,           \* number of calls of next
    lastSome,        \* the last call of next returned Some
    panicked,        \* a call of next panicked
    tb,              \* the table: its drop flag and its index definitions
    rec,             \* the committed document of every record id, if any
    kv,              \* the index storage as the transaction sees it
    last,            \* the call of Document::index of the open transaction
    locked,          \* the lock of the shared transaction is taken
    tasks            \* the tasks that run Document::index on that transaction

cvars == <<source, comb, out, calls, lastSome, panicked>>
tvars == <<locked, tasks>>
mvars == <<tb, rec, kv, last, locked, tasks>>
vars == <<overflow_checks, source, comb, out, calls, lastSome, panicked,
          tb, rec, kv, last, locked, tasks>>

NoCall ==
    [called |-> FALSE, replay |-> FALSE, rid |-> "r1", initial |-> NoneOpt,
     current |-> NoneOpt, force |-> FALSE, indexes |-> TRUE, fault |-> 0,
     res |-> Ok, ops |-> <<>>, ev |-> <<>>, kvbefore |-> {}, kvcall |-> {}]

CombIdle ==
    /\ source = <<>>
    /\ comb = CombinatorNew(<<>>)
    /\ out = <<>>
    /\ calls = 0
    /\ lastSome = TRUE
    /\ panicked = FALSE

\* no task runs on a shared transaction
TasksIdle ==
    /\ locked = FALSE
    /\ tasks = <<>>

IndexIdle ==
    /\ tb = [drop |-> FALSE, ixs |-> <<>>]
    /\ rec = [r \in Rids |-> NoneOpt]
    /\ kv = {}
    /\ last = NoCall
    /\ TasksIdle

\* ------------------------------------------------------------------------
\* A run of one Combinator
\* ------------------------------------------------------------------------
ColumnValues ==
    {Scalar(a) : a \in {"Tobie", Null}}
        \cup {Arr(s) : s \in SeqsUpTo({"piano", "violin"}, MaxArrLen)}

Sources ==
    UNION {[1..k -> [v : ColumnValues, f : BOOLEAN]] : k \in 0..MaxCols}

CombInit ==
    /\ overflow_checks \in BOOLEAN
    /\ source \in Sources
    /\ comb = CombinatorNew(source)
    /\ out = <<>>
    /\ calls = 0
    /\ lastSome = TRUE
    /\ panicked = FALSE
    /\ IndexIdle

\* one call of Combinator::next that returns an item
CombYield ==
    /\ ~panicked /\ calls < MaxSteps
    /\ LET n == CombinatorNext(comb, overflow_checks)
       IN /\ n.some
          /\ comb' = n.c
          /\ out' = Append(out, n.item)
          /\ lastSome' = TRUE
    /\ calls' = calls + 1
    /\ UNCHANGED <<overflow_checks, source, panicked, mvars>>

\* one call of Combinator::next that returns None
CombEnd ==
    /\ ~panicked /\ calls < MaxSteps
    /\ LET n == CombinatorNext(comb, overflow_checks)
       IN /\ ~n.some /\ ~n.panic
          /\ comb' = n.c
          /\ lastSome' = FALSE
    /\ calls' = calls + 1
    /\ UNCHANGED <<overflow_checks, source, out, panicked, mvars>>

\* one call of Combinator::next that panics
CombPanic ==
    /\ ~panicked /\ calls < MaxSteps
    /\ CombinatorNext(comb, overflow_checks).panic
    /\ panicked' = TRUE
    /\ lastSome' = FALSE
    /\ calls' = calls + 1
    /\ UNCHANGED <<overflow_checks, source, comb, out, mvars>>

CombStep == CombYield \/ CombEnd \/ CombPanic

SpecComb == CombInit /\ [][CombStep]_vars

\* the columns of the source a multi-iterator expands
MultiCols == {i \in 1..Len(source) : ~source[i].f /\ source[i].v.arr}

\* the Combinator has returned None
Ended == calls > 0 /\ ~lastSome /\ ~panicked

\* the Cartesian product of the expanded columns of src from column i on,
\* in lexicographic order, the leftmost column varying slowest
RECURSIVE Product(_, _)
Product(src, i) ==
    IF i > Len(src) THEN << <<>> >>
    ELSE LET rest == Product(src, i + 1)
             heads == IF ~src[i].f /\ src[i].v.arr
                      THEN [k \in 1..Len(src[i].v.v) |-> Scalar(src[i].v.v[k])]
                      ELSE <<src[i].v>>
         IN [k \in 1..(Len(heads) * Len(rest)) |->
                <<heads[((k - 1) \div Len(rest)) + 1]>>
                    \o rest[((k - 1) % Len(rest)) + 1]]

\* C7: a Combinator whose expanded columns are all non-empty arrays has,
\* when it ends, yielded exactly the Cartesian product of those arrays, each
\* combination once, in lexicographic order with the leftmost column
\* varying slowest.
C7_CartesianProduct ==
    (Ended /\ \A i \in MultiCols : Len(source[i].v.v) > 0)
        => out = Product(source, 1)

\* C8: a Combinator whose only expanded column is an empty array yields
\* exactly one tuple, with NULL in that column, and then ends: the call of
\* next neither faults nor finds a further item.
C8_EmptyArrayOneNull ==
    (\E i \in MultiCols : MultiCols = {i} /\ Len(source[i].v.v) = 0)
        => /\ ~panicked
           /\ Len(out) <= 1
           /\ calls >= 1 => Len(out) = 1
           /\ calls >= 2 => ~lastSome
           /\ \A k \in 1..Len(out) :
                  \A i \in MultiCols : out[k][i] = Scalar(Null)

\* ------------------------------------------------------------------------
\* Record mutations that call Document::index, indexing enabled, on a
\* table that is not a view. Each mutation runs in a transaction of its
\* own: the call returns, and then its caller commits the record if the
\* call returned Ok and rolls the transaction back if it did not.
\* ------------------------------------------------------------------------
Init ==
    /\ overflow_checks \in BOOLEAN
    /\ CombIdle
    /\ tb \in {[drop |-> FALSE, ixs |-> s] : s \in Schemas}
    /\ rec = [r \in Rids |-> NoneOpt]
    /\ kv = {}
    /\ last = NoCall
    /\ TasksIdle

\* no transaction is open
Idle == ~last.called

\* the return of a call: r is what Document::index did
Return(r, rid, initial, current, opt, fault, replay, kvbefore) ==
    /\ last' = [called |-> TRUE, replay |-> replay, rid |-> rid,
                initial |-> initial, current |-> current,
                force |-> opt.force, indexes |-> opt.indexes,
                fault |-> fault, res |-> r.res, ops |-> r.ops, ev |-> r.ev,
                kvbefore |-> kvbefore, kvcall |-> kv]
    /\ kv' = r.kv
    /\ UNCHANGED <<overflow_checks, cvars, tvars, tb, rec>>

\* Document::index on record rid with views initial and current, options
\* opt, on a transaction whose fault-th storage call fails
CallWith(rid, initial, current, opt, fault, replay, kvbefore) ==
    Return(Document_index(Txn(kv, fault), opt, tb, initial, current, rid,
                          overflow_checks),
           rid, initial, current, opt, fault, replay, kvbefore)

\* Document::index with indexing enabled on a storage without faults
Call(rid, initial, current, force, replay, kvbefore) ==
    CallWith(rid, initial, current, [indexes |-> TRUE, force |-> force], 0,
             replay, kvbefore)

\* CREATE: the record has no initial view
Create ==
    \E rid \in Rids, d \in Docs, force \in BOOLEAN :
        /\ Idle
        /\ rec[rid] = NoneOpt
        /\ Call(rid, NoneOpt, Some(d), force, FALSE, kv)

\* UPDATE: both views present (they are equal when nothing was changed)
Update ==
    \E rid \in Rids, d \in Docs, force \in BOOLEAN :
        /\ Idle
        /\ rec[rid] # NoneOpt
        /\ Call(rid, rec[rid], Some(d), force, FALSE, kv)

\* DELETE: the record has no current view
Delete ==
    \E rid \in Rids, force \in BOOLEAN :
        /\ Idle
        /\ rec[rid] # NoneOpt
        /\ Call(rid, rec[rid], NoneOpt, force, FALSE, kv)

\* the call of the open transaction, which was forced and returned Ok, made
\* once more with the same views and force set, on the storage it left
Replay ==
    /\ last.called /\ ~last.replay /\ last.force /\ last.res = Ok
    /\ Call(last.rid, last.initial, last.current, TRUE, TRUE, last.kvbefore)

\* the caller commits the record and the index writes
Commit ==
    /\ last.called /\ last.res = Ok
    /\ rec' = [rec EXCEPT ![last.rid] = last.current]
    /\ last' = NoCall
    /\ UNCHANGED <<overflow_checks, cvars, tvars, tb, kv>>

\* the caller rolls the transaction back
Rollback ==
    /\ last.called /\ last.res # Ok
    /\ kv' = last.kvbefore
    /\ last' = NoCall
    /\ UNCHANGED <<overflow_checks, cvars, tvars, tb, rec>>

Next == Create \/ Update \/ Delete \/ Replay \/ Commit \/ Rollback

Spec == Init /\ [][Next]_vars

\* ------------------------------------------------------------------------
\* Properties of the index storage
\* ------------------------------------------------------------------------
\* the set of tuples the Combinator draws from a record view for index ix
TupleSet(ix, doc) ==
    IF doc = NoneOpt THEN {}
    ELSE LET e == Expand(build_opt_values(ix, doc)[1], ix, overflow_checks)
         IN {e.tuples[i] : i \in 1..Len(e.tuples)}

\* the record views as they are once the open transaction, if it returned
\* Ok, commits
View(r) ==
    IF last.called /\ last.res = Ok /\ r = last.rid THEN last.current
    ELSE rec[r]

\* the storage is the outcome of successful calls only
Settled == Idle \/ last.res = Ok

UniqueIxs == {j \in 1..Len(tb.ixs) : tb.ixs[j].index = "Uniq"}
NonUniqueIxs == {j \in 1..Len(tb.ixs) : tb.ixs[j].index = "Idx"}

\* C1: on a unique index, after any sequence of calls (failed calls rolled
\* back), two distinct live records share an indexable tuple only if all its
\* components are NULL/NONE, and storage never holds a key of the unique
\* index whose tuple is all NULL/NONE.
C1_UniqueTuples ==
    \A j \in UniqueIxs :
        /\ Settled =>
             \A r1, r2 \in Rids :
                 r1 # r2 =>
                     \A t \in TupleSet(tb.ixs[j], View(r1))
                                 \cap TupleSet(tb.ixs[j], View(r2)) :
                         is_all_none_or_null(t)
        /\ \A e \in kv :
               e.k.ix = tb.ixs[j].name => ~is_all_none_or_null(e.k.fd)

\* two committed records each own an entry of the same unique index
C1_Witness ==
    /\ Idle
    /\ \E j \in UniqueIxs :
          /\ \E e \in kv : e.k.ix = tb.ixs[j].name /\ e.v = "r1"
          /\ \E e \in kv : e.k.ix = tb.ixs[j].name /\ e.v = "r2"
          /\ TupleSet(tb.ixs[j], rec["r1"]) # {}
          /\ TupleSet(tb.ixs[j], rec["r2"]) # {}

\* the tuples of the entries of index ix that storage holds for record r
Owned(ix, r) ==
    {e.k.fd : e \in {x \in kv : /\ x.k.ix = ix.name
                                /\ x.v = r
                                /\ x.k.id = IF ix.index = "Uniq" THEN NoneOpt
                                            ELSE Some(r)}}

\* C2: after successful calls from empty storage, the entries a record owns
\* in an index are exactly the tuples of its current values (without the
\* all-null tuples on a unique index); a deleted record owns none, and no
\* entry is held under a key of another shape.
C2_EntriesMatchRecords ==
    Settled =>
        /\ \A j \in 1..Len(tb.ixs) : \A r \in Rids :
               Owned(tb.ixs[j], r) =
                   {t \in TupleSet(tb.ixs[j], View(r)) :
                        tb.ixs[j].index = "Uniq" => ~is_all_none_or_null(t)}
        /\ \A e \in kv : \E j \in 1..Len(tb.ixs) :
               e.k.fd \in Owned(tb.ixs[j], e.v)

\* a record was updated to other tuples and a record was deleted, with
\* entries of the other record still stored
C2_Witness ==
    /\ last.called /\ last.res = Ok
    /\ last.initial # NoneOpt
    /\ \E j \in 1..Len(tb.ixs) :
           /\ TupleSet(tb.ixs[j], last.initial)
                 # TupleSet(tb.ixs[j], last.current)
           /\ Owned(tb.ixs[j], last.rid) # {}
           /\ \E r \in Rids \ {last.rid} : Owned(tb.ixs[j], r) # {}

\* ------------------------------------------------------------------------
\* Properties of one call
\* ------------------------------------------------------------------------
\* the old and the new values of the call for definition j, and the tuples
\* the writer draws from them
LastOld(j) == build_opt_values(tb.ixs[j], last.initial)
LastNew(j) == build_opt_values(tb.ixs[j], last.current)
OldTuples(j) == ExpandTaken(LastOld(j), tb.ixs[j], overflow_checks)
NewTuples(j) == ExpandTaken(LastNew(j), tb.ixs[j], overflow_checks)

\* the values of definition j expand to exactly one tuple
OneTuple(e) == e.end = "done" /\ Len(e.tuples) = 1

\* the storage calls of the call on keys of definition j
OpsOf(j) ==
    {i \in 1..Len(last.ops) : last.ops[i].key.ix = tb.ixs[j].name}

\* the call asserts, on the unique index that is the first definition, the
\* single tuple T, which is not all-null and is held by record r1, not the
\* caller
HoldsTupleOf(r1, T) ==
    /\ last.called /\ ~last.replay
    /\ tb.ixs[1].index = "Uniq"
    /\ OneTuple(NewTuples(1))
    /\ NewTuples(1).tuples[1] = T
    /\ ~is_all_none_or_null(T)
    /\ r1 # last.rid
    /\ Get(last.kvcall, get_unique_index_key(tb.ixs[1], T)) = Some(r1)

\* C3: when a record asserts a tuple T (not all-null) of a unique index
\* that another record r1 has stored by an earlier successful call, the call
\* fails with IndexExists whose thing is r1, whose index is the index name
\* and whose value is the bare value of a one-element tuple and the tuple's
\* textual form otherwise; r1's entry is still stored when the call returns.
C3_IndexExists ==
    \A r1 \in Rids :
        \A T \in {NewTuples(1).tuples[i] : i \in 1..Len(NewTuples(1).tuples)} :
            HoldsTupleOf(r1, T) =>
                /\ rec[r1] # NoneOpt
                /\ T \in TupleSet(tb.ixs[1], rec[r1])
                /\ last.res.t = "IndexExists"
                /\ last.res.thing = r1
                /\ last.res.index = tb.ixs[1].name
                /\ Len(T) = 1 => last.res.value = ValueToString(T[1])
                /\ Len(T) # 1 => last.res.value = ArrayToString(T)
                /\ T = <<Scalar("Tobie")>> => last.res.value = "'Tobie'"
                /\ Get(kv, get_unique_index_key(tb.ixs[1], T)) = Some(r1)

\* a call asserts a two-element tuple that the other record holds
C3_Witness ==
    \E r1 \in Rids :
        HoldsTupleOf(r1, <<Scalar("Tobie"), Scalar("piano")>>)

\* the call is on a record that owns the entry of tuple A of the unique
\* index that is the first definition, its old values give A and its new
\* values give B, which differs from A and is owned by no other record
MovesTuple(A, B) ==
    /\ last.called
    /\ tb.ixs[1].index = "Uniq"
    /\ OneTuple(OldTuples(1)) /\ OldTuples(1).tuples[1] = A
    /\ OneTuple(NewTuples(1)) /\ NewTuples(1).tuples[1] = B
    /\ A # B
    /\ Get(last.kvcall, get_unique_index_key(tb.ixs[1], A)) = Some(last.rid)
    /\ Get(last.kvcall, get_unique_index_key(tb.ixs[1], B))
           \in {NoneOpt, Some(last.rid)}

\* the pairs of tuples of the call for the first definition
LastMoves ==
    {<<OldTuples(1).tuples[i], NewTuples(1).tuples[k]>> :
         i \in 1..Len(OldTuples(1).tuples), k \in 1..Len(NewTuples(1).tuples)}

\* C4 as stated: the call succeeds, and afterwards the key of A is absent
\* and the key of B maps to the record.
C4_MoveStoresB ==
    \A m \in LastMoves :
        MovesTuple(m[1], m[2]) =>
            /\ last.res = Ok
            /\ Get(kv, get_unique_index_key(tb.ixs[1], m[1])) = NoneOpt
            /\ Get(kv, get_unique_index_key(tb.ixs[1], m[2])) = Some(last.rid)

\* C4 amended: the call succeeds, and afterwards the key of A is absent and
\* the key of B maps to the record unless B is all NULL/NONE, in which case
\* the key of B is absent as well.
C4_MoveStoresBUnlessNull ==
    \A m \in LastMoves :
        MovesTuple(m[1], m[2]) =>
            /\ last.res = Ok
            /\ Get(kv, get_unique_index_key(tb.ixs[1], m[1])) = NoneOpt
            /\ Get(kv, get_unique_index_key(tb.ixs[1], m[2])) =
                   IF is_all_none_or_null(m[2]) THEN NoneOpt
                   ELSE Some(last.rid)

\* a record moves from a stored tuple to another tuple that is not all-null
C4_Witness ==
    \E m \in LastMoves :
        MovesTuple(m[1], m[2]) /\ ~is_all_none_or_null(m[2])

\* C5: a call with force = false makes no storage call on the keys of a
\* definition whose old and new values are equal, and leaves the entries of
\* that definition as they were.
C5_NoWriteWhenEqual ==
    \A j \in 1..Len(tb.ixs) :
        (last.called /\ ~last.force /\ LastOld(j) = LastNew(j)) =>
            /\ OpsOf(j) = {}
            /\ {e \in kv : e.k.ix = tb.ixs[j].name}
                   = {e \in last.kvcall : e.k.ix = tb.ixs[j].name}

\* an unforced update changed the record and wrote to one index while the
\* values of another index, which has entries, stayed the same
C5_Witness ==
    /\ last.called /\ ~last.force
    /\ last.initial # NoneOpt /\ last.current # NoneOpt
    /\ last.initial # last.current
    /\ \E j \in 1..Len(tb.ixs) :
           /\ LastOld(j) = LastNew(j)
           /\ \E e \in kv : e.k.ix = tb.ixs[j].name /\ e.v = last.rid
    /\ last.ops # <<>>

\* what a call with the views of the last call, on the storage the last
\* call found, does when force is not set
Unforced ==
    Document_index(Txn(last.kvcall, 0), [indexes |-> TRUE, force |-> FALSE], tb,
                   last.initial, last.current, last.rid, overflow_checks)

\* the second of two forced calls with the same views returns and leaves
\* what an unforced call with these views after the first call would
SameAsUnforced == last.res = Unforced.res /\ kv = Unforced.kv

\* definition j has a new tuple that the writer stores and that is not
\* among the old tuples
StoresNewTuple(j) ==
    \E i \in 1..Len(NewTuples(j).tuples) :
        /\ tb.ixs[j].index = "Uniq"
               => ~is_all_none_or_null(NewTuples(j).tuples[i])
        /\ \A k \in 1..Len(OldTuples(j).tuples) :
               OldTuples(j).tuples[k] # NewTuples(j).tuples[i]

\* C6 as stated: the second of two forced calls with the same old and new
\* values returns and leaves what an unforced call in its place would, and
\* it does not fail.
C6_SecondForcedRunOk ==
    last.replay => SameAsUnforced /\ last.res = Ok

\* C6 amended: the second of two forced calls with the same old and new
\* values returns and leaves what an unforced call in its place would; when
\* old and new views are equal the unforced call is a no-op and the second
\* forced call returns Ok and leaves storage as it was; the second call
\* fails exactly when some definition has a stored new tuple that is not an
\* old tuple, and then with IndexExists naming the record itself.
C6_SecondForcedRun ==
    last.replay =>
        /\ SameAsUnforced
        /\ last.initial = last.current =>
               /\ last.res = Ok
               /\ Unforced.ops = <<>>
               /\ kv = last.kvcall
        /\ last.res # Ok <=> \E j \in 1..Len(tb.ixs) : StoresNewTuple(j)
        /\ last.res # Ok =>
               last.res.t = "IndexExists" /\ last.res.thing = last.rid

\* a forced update with equal views that wrote entries was made twice
C6_Witness ==
    /\ last.replay
    /\ last.initial = last.current
    /\ last.res = Ok
    /\ \E i \in 1..Len(last.ops) : last.ops[i].op = "putc"

\* the non-unique index on (name, instrument), with or without the flatten
\* marker on instrument, gets a new record with name Tobie and instrument
\* [piano, violin]
TobieDoc ==
    [name |-> Scalar("Tobie"), instrument |-> Arr(<<"piano", "violin">>)]

CreatesTobie(flatten) ==
    /\ last.called /\ ~last.replay
    /\ Len(tb.ixs) = 1
    /\ tb.ixs[1].index = "Idx"
    /\ tb.ixs[1].cols = <<Col("name", FALSE), Col("instrument", flatten)>>
    /\ last.initial = NoneOpt
    /\ last.current = Some(TobieDoc)

\* the entry of the non-unique index for tuple t of the record of the call
Entry(t) ==
    [k |-> get_non_unique_index_key(tb.ixs[1], t, last.rid), v |-> last.rid]

\* C9 as stated: with the flatten marker on instrument the insert stores
\* exactly the two keys (Tobie, piano, rid) and (Tobie, violin, rid).
C9_FlattenMarkerSplits ==
    CreatesTobie(TRUE) =>
        kv \ last.kvcall =
            {Entry(<<Scalar("Tobie"), Scalar("piano")>>),
             Entry(<<Scalar("Tobie"), Scalar("violin")>>)}

\* C9 amended: the array of a column contributes one tuple per element when
\* the column expression does not end with the flatten marker: the insert
\* then stores exactly the two keys (Tobie, piano, rid) and (Tobie, violin,
\* rid); with the flatten marker it stores exactly one key, whose tuple
\* holds the array, (Tobie, [piano, violin], rid).
C9_NoMarkerSplits ==
    /\ CreatesTobie(FALSE) =>
           /\ last.res = Ok
           /\ kv \ last.kvcall =
                  {Entry(<<Scalar("Tobie"), Scalar("piano")>>),
                   Entry(<<Scalar("Tobie"), Scalar("violin")>>)}
    /\ CreatesTobie(TRUE) =>
           /\ last.res = Ok
           /\ kv \ last.kvcall =
                  {Entry(<<Scalar("Tobie"), Arr(<<"piano", "violin">>)>>)}

\* the record is created under the index without the flatten marker while
\* the other record has entries
C9_Witness == CreatesTobie(FALSE) /\ last.kvcall # {}

\* the result of the call after the definitions before j (Ok if j is
\* reached), and after definition j
ResultUpTo(j) ==
    IF ~last.force /\ last.initial = last.current THEN Ok
    ELSE IndexLoop(Start(Txn(last.kvcall, 0)),
                   [indexes |-> TRUE, force |-> last.force],
                   SubSeq(tb.ixs, 1, j), 1, last.initial, last.current,
                   last.rid, overflow_checks).res

\* the writer of definition j ran
Ran(j) ==
    /\ last.called
    /\ ~(~last.force /\ last.initial = last.current)
    /\ last.force \/ LastOld(j) # LastNew(j)
    /\ ResultUpTo(j - 1) = Ok

\* the call made storage call op on key
Called(op, key) ==
    \E i \in 1..Len(last.ops) : last.ops[i] = Op(op, key)

\* C10: the unique writer makes no put_conditional call for a new tuple
\* that is all NULL/NONE, and a delete_conditional call for every tuple of
\* the old values, all-null or not; the non-unique writer puts the all-null
\* tuples as any other.
C10_AllNullFilter ==
    \A j \in 1..Len(tb.ixs) :
        /\ tb.ixs[j].index = "Uniq" =>
               /\ \A i \in OpsOf(j) :
                      last.ops[i].op = "putc"
                          => ~is_all_none_or_null(last.ops[i].key.fd)
               /\ Ran(j) =>
                      \A i \in 1..Len(OldTuples(j).tuples) :
                          Called("delc",
                                 get_unique_index_key(tb.ixs[j],
                                     OldTuples(j).tuples[i]))
        /\ (tb.ixs[j].index = "Idx" /\ Ran(j) /\ ResultUpTo(j) = Ok) =>
               \A i \in 1..Len(NewTuples(j).tuples) :
                   LET key == get_non_unique_index_key(tb.ixs[j],
                                  NewTuples(j).tuples[i], last.rid)
                   IN /\ Called("putc", key)
                      /\ Get(kv, key) = Some(last.rid)

\* one call deleted an all-null old tuple of a unique index, passed over
\* its all-null new tuple, and put an all-null tuple of a non-unique index
C10_Witness ==
    /\ last.called
    /\ \E j \in UniqueIxs :
           /\ Ran(j)
           /\ \E i \in 1..Len(OldTuples(j).tuples) :
                  is_all_none_or_null(OldTuples(j).tuples[i])
           /\ \E i \in 1..Len(NewTuples(j).tuples) :
                  is_all_none_or_null(NewTuples(j).tuples[i])
    /\ \E i \in 1..Len(last.ops) :
           /\ last.ops[i].op = "putc"
           /\ is_all_none_or_null(last.ops[i].key.fd)

\* ------------------------------------------------------------------------
\* Record mutations under every option of the caller, on tables that may be
\* views or hold an MTree definition, over a storage that may raise an
\* error: indexing may be switched off (the record is then committed
\* without index writes), and one storage call of a transaction may fail
\* with an error other than TxConditionNotMet.
\* ------------------------------------------------------------------------
\* the most storage calls of one transaction before the one that fails
MaxFault == 4

EnvDocs ==
    {[name |-> Scalar("Tobie"), instrument |-> Scalar("piano")],
     [name |-> Scalar("Tobie"), instrument |-> Arr(<<"piano", "violin">>)],
     [name |-> Scalar(Null), instrument |-> Scalar("violin")]}

EnvSchemas ==
    { << DefineIndex("uniq_name", "Uniq", <<Col("name", FALSE)>>) >>,
      << DefineIndex("uniq_instr", "Uniq", <<Col("instrument", FALSE)>>),
         DefineIndex("idx_name", "Idx", <<Col("name", FALSE)>>) >>,
      << DefineIndex("idx_instr", "Idx", <<Col("instrument", FALSE)>>),
         DefineIndex("mt_name", "MTree", <<Col("name", FALSE)>>) >> }

EnvTables ==
    {[drop |-> FALSE, ixs |-> s] : s \in EnvSchemas}
        \cup {[drop |-> TRUE,
               ixs |-> << DefineIndex("uniq_name", "Uniq",
                                      <<Col("name", FALSE)>>) >>]}

\* no document holds an empty array, so that both builds behave alike
EnvInit ==
    /\ overflow_checks = TRUE
    /\ CombIdle
    /\ tb \in EnvTables
    /\ rec = [r \in Rids |-> NoneOpt]
    /\ kv = {}
    /\ last = NoCall
    /\ TasksIdle

\* the options a caller passes
Options == [indexes : BOOLEAN, force : BOOLEAN]

\* the storage call that fails in a transaction with options opt: a call
\* with indexing switched off makes no storage call
Faults(opt) == IF opt.indexes THEN 0..MaxFault ELSE {0}

EnvCreate ==
    \E rid \in Rids, d \in EnvDocs, opt \in Options :
      \E fault \in Faults(opt) :
        /\ Idle
        /\ rec[rid] = NoneOpt
        /\ CallWith(rid, NoneOpt, Some(d), opt, fault, FALSE, kv)

EnvUpdate ==
    \E rid \in Rids, d \in EnvDocs, opt \in Options :
      \E fault \in Faults(opt) :
        /\ Idle
        /\ rec[rid] # NoneOpt
        /\ CallWith(rid, rec[rid], Some(d), opt, fault, FALSE, kv)

EnvDelete ==
    \E rid \in Rids, opt \in Options :
      \E fault \in Faults(opt) :
        /\ Idle
        /\ rec[rid] # NoneOpt
        /\ CallWith(rid, rec[rid], NoneOpt, opt, fault, FALSE, kv)

EnvNext == EnvCreate \/ EnvUpdate \/ EnvDelete \/ Commit \/ Rollback

SpecEnv == EnvInit /\ [][EnvNext]_vars

\* ------------------------------------------------------------------------
\* Properties of one call under the options, tables and storage errors of
\* SpecEnv
\* ------------------------------------------------------------------------
\* the call made the step e on definition j
Did(e, j) == \E i \in 1..Len(last.ev) : last.ev[i] = Ev(e, tb.ixs[j].name)

\* the loop over the definitions came to definition j
Reached(j) == last.called /\ Did("new", j)

MTreeIxs == {j \in 1..Len(tb.ixs) : tb.ixs[j].index = "MTree"}

\* the error of an MTree definition
MTreeError == FeatureNotYetImplemented("MTree indexing")

\* C11 as stated: a call that comes to an MTree definition fails with
\* FeatureNotYetImplemented {feature: "MTree indexing"} whatever the old and
\* new values are, old = new with force = false included, and makes no
\* storage call for that definition.
C11_MTreeAlwaysFails ==
    \A j \in MTreeIxs :
        Reached(j) => last.res = MTreeError /\ OpsOf(j) = {}

\* C11: a call that comes to an MTree definition makes no storage call for
\* it; it takes the lock and fails with FeatureNotYetImplemented {feature:
\* "MTree indexing"} when force is set or the old values differ from the
\* new, and the loop stops there; with old = new and force = false it
\* passes the definition over without the lock and without that error.
C11_MTreeFailsWhenUpdated ==
    \A j \in MTreeIxs :
        Reached(j) =>
            /\ OpsOf(j) = {}
            /\ (last.force \/ LastOld(j) # LastNew(j)) =>
                   /\ last.res = MTreeError
                   /\ last.res.t = "FeatureNotYetImplemented"
                   /\ last.res.value = "MTree indexing"
                   /\ Did("lock", j) /\ Did("unlock", j)
                   /\ \A k \in (j + 1)..Len(tb.ixs) : ~Did("old", k)
            /\ ~(last.force \/ LastOld(j) # LastNew(j)) =>
                   /\ last.res # MTreeError
                   /\ ~Did("lock", j)

\* a call wrote the entries of an earlier definition and then failed on the
\* MTree definition
C11_Witness ==
    /\ last.called /\ last.res = MTreeError
    /\ last.ops # <<>>
    /\ \E j \in MTreeIxs : Reached(j) /\ LastOld(j) # LastNew(j)

\* the call made a step of kind e
DidAny(e) == \E i \in 1..Len(last.ev) : last.ev[i].e = e

\* the record of the call was not changed and the call was not forced
Unchanged == ~last.force /\ last.initial = last.current

\* C12: the call returns Ok without extracting values, taking the lock or
\* making a storage call, and leaves the storage as it found it, when
\* indexing is switched off, or when force is not set and the record is
\* unchanged, or when the table is a view; the gates are taken in that
\* order: the table is read only by a call that passed the first two, and
\* the index definitions only by a call that passed all three.
C12_Gates ==
    last.called =>
        /\ (~last.indexes \/ Unchanged \/ tb.drop) =>
               /\ last.res = Ok
               /\ last.ops = <<>>
               /\ kv = last.kvcall
               /\ ~DidAny("old") /\ ~DidAny("new")
               /\ ~DidAny("lock") /\ ~DidAny("ix")
        /\ ~last.indexes => last.ev = <<>>
        /\ Unchanged => last.ev = <<>>
        /\ (last.indexes /\ ~Unchanged /\ tb.drop) =>
               last.ev = <<Ev("tb", "")>>
        /\ (last.indexes /\ ~Unchanged /\ ~tb.drop) =>
               /\ Len(last.ev) >= 2
               /\ last.ev[1] = Ev("tb", "")
               /\ last.ev[2] = Ev("ix", "")

\* a forced call with indexing switched off changed a record of a table
\* that is no view and holds index entries
C12_Witness ==
    /\ last.called /\ ~last.indexes /\ last.force
    /\ last.initial # last.current
    /\ ~tb.drop
    /\ kv # {}

\* ------------------------------------------------------------------------
\* Several tasks that run Document::index on one shared transaction, each
\* on a record of its own (the task is named after its record). A task is
\* suspended at every await: before it takes the lock, and at each storage
\* call of a writer; the tasks interleave at these points.
\* ------------------------------------------------------------------------
TaskDocs ==
    {[name |-> Scalar("Tobie"), instrument |-> Scalar("piano")],
     [name |-> Scalar("Tobie"), instrument |-> Arr(<<"piano", "violin">>)]}

TaskSchemas ==
    { << DefineIndex("uniq_name", "Uniq", <<Col("name", FALSE)>>) >>,
      << DefineIndex("idx_both", "Idx",
                     <<Col("name", FALSE), Col("instrument", FALSE)>>),
         DefineIndex("uniq_instr", "Uniq", <<Col("instrument", FALSE)>>) >> }

\* a task before its call: its views and whether its call is forced
NewTask(initial, current, force) ==
    [pc |-> "values", j |-> 1, holds |-> FALSE, initial |-> initial,
     current |-> current, force |-> force, w |-> Start(Txn({}, 0)),
     k |-> 0, res |-> Ok]

\* the calls that get past "Check if forced"
Changed == {c \in [initial : {NoneOpt} \cup {Some(d) : d \in TaskDocs},
                   current : {Some(d) : d \in TaskDocs}, force : BOOLEAN] :
                c.force \/ c.initial # c.current}

NewTasks == {NewTask(c.initial, c.current, c.force) : c \in Changed}

TaskInit ==
    /\ overflow_checks = TRUE
    /\ CombIdle
    /\ tb \in {[drop |-> FALSE, ixs |-> s] : s \in TaskSchemas}
    /\ rec = [r \in Rids |-> NoneOpt]
    /\ kv = {}
    /\ last = NoCall
    /\ locked = FALSE
    /\ tasks \in [Rids -> NewTasks]

\* the old and new values of task t for the definition it is at
TaskOld(t) == build_opt_values(tb.ixs[tasks[t].j], tasks[t].initial)
TaskNew(t) == build_opt_values(tb.ixs[tasks[t].j], tasks[t].current)

\* the loop over the definitions is over: the call returns Ok
TaskReturn(t) ==
    /\ tasks[t].pc = "values"
    /\ tasks[t].j > Len(tb.ixs)
    /\ tasks' = [tasks EXCEPT ![t].pc = "done"]
    /\ UNCHANGED <<overflow_checks, cvars, tb, rec, kv, last, locked>>

\* "Calculate old values", "Calculate new values" and the test of
\* "Update the index entries" for the definition the task is at
TaskValues(t) ==
    /\ tasks[t].pc = "values"
    /\ tasks[t].j <= Len(tb.ixs)
    /\ tasks' = IF tasks[t].force \/ TaskOld(t) # TaskNew(t)
                THEN [tasks EXCEPT ![t].pc = "lock"]
                ELSE [tasks EXCEPT ![t].j = tasks[t].j + 1]
    /\ UNCHANGED <<overflow_checks, cvars, tb, rec, kv, last, locked>>

\* the task claims the lock, the writer of its definition before it
TaskLocked(t, w) ==
    /\ locked' = TRUE
    /\ tasks' = [tasks EXCEPT ![t].pc = "write", ![t].holds = TRUE,
                              ![t].w = w, ![t].k = 0]
    /\ UNCHANGED <<overflow_checks, cvars, tb, rec, kv, last>>

\* a claim of the transaction that does not wait for the lock
TaskClaim_NoWait(t) ==
    /\ tasks[t].pc = "lock"
    /\ TaskLocked(t, Dispatch(Txn(kv, 0), tb.ixs[tasks[t].j], TaskOld(t),
                              TaskNew(t), t, overflow_checks))

\* "Claim transaction": txn.lock().await returns once the lock is free; the
\* writer that is dispatched then works on the storage as it is now
TaskClaim(t) ==
    /\ tasks[t].pc = "lock"
    /\ ~locked
    /\ TaskLocked(t, Dispatch(Txn(kv, 0), tb.ixs[tasks[t].j], TaskOld(t),
                              TaskNew(t), t, overflow_checks))

\* the storage after storage call op of record rid
ApplyOp(store, op, rid) ==
    IF op.op = "delc" THEN Delc(store, op.key, rid).kv
    ELSE IF op.op = "putc" THEN Putc(store, op.key, rid).kv
    ELSE store

\* the writer of the task makes its next storage call
TaskStorageCall(t) ==
    /\ tasks[t].pc = "write"
    /\ tasks[t].k < Len(tasks[t].w.ops)
    /\ kv' = ApplyOp(kv, tasks[t].w.ops[tasks[t].k + 1], t)
    /\ tasks' = [tasks EXCEPT ![t].k = tasks[t].k + 1]
    /\ UNCHANGED <<overflow_checks, cvars, tb, rec, last, locked>>

\* the writer returns and the guard of the lock goes out of scope: the loop
\* goes on when the writer returned Ok, and the call returns the error
\* when it did not
TaskRelease(t) ==
    /\ tasks[t].pc = "write"
    /\ tasks[t].k = Len(tasks[t].w.ops)
    /\ locked' = FALSE
    /\ tasks' = IF tasks[t].w.res = Ok
                THEN [tasks EXCEPT ![t].pc = "values", ![t].holds = FALSE,
                                   ![t].j = tasks[t].j + 1]
                ELSE [tasks EXCEPT ![t].pc = "done", ![t].holds = FALSE,
                                   ![t].res = tasks[t].w.res]
    /\ UNCHANGED <<overflow_checks, cvars, tb, rec, kv, last>>

TaskNext ==
    \E t \in Rids :
        \/ TaskValues(t)
        \/ TaskClaim(t)
        \/ TaskStorageCall(t)
        \/ TaskRelease(t)
        \/ TaskReturn(t)

SpecTasks == TaskInit /\ [][TaskNext]_vars

\* the tasks that hold the lock
Holders == {t \in Rids : tasks[t].holds}

\* task t is in the write phase of a definition
Writing(t) == tasks[t].pc = "write"

\* task t makes a storage call in this step
StorageCallOf(t) == tasks'[t].k = tasks[t].k + 1

\* C13: of the tasks that run on one shared transaction at most one holds
\* the lock at a time; a task makes the storage calls of a definition's
\* write phase while it holds the lock, no storage call of another task
\* comes between them (the storage the writer leaves is the one it worked
\* out when it took the lock), and the lock is released when the write
\* phase ends, with Ok or with an error, before the next definition is
\* looked at and before the call returns.
C13_LockedWritePhase ==
    /\ [](/\ Cardinality(Holders) <= 1
          /\ locked <=> Holders # {}
          /\ \A t \in Rids :
                /\ Writing(t) <=> tasks[t].holds
                /\ (Writing(t) /\ tasks[t].k = Len(tasks[t].w.ops)) =>
                       kv = tasks[t].w.kv)
    /\ [][\A t \in Rids :
              /\ StorageCallOf(t) =>
                     /\ tasks[t].holds /\ tasks'[t].holds
                     /\ \A u \in Rids \ {t} : ~Writing(u)
              /\ (Writing(t) /\ Writing(t)') =>
                     /\ kv' # kv => StorageCallOf(t)
                     /\ \A u \in Rids \ {t} : tasks'[u].k = tasks[u].k
              /\ kv' # kv => \E u \in Rids : StorageCallOf(u)
              /\ (tasks[t].holds /\ ~tasks'[t].holds) =>
                     /\ tasks[t].k = Len(tasks[t].w.ops)
                     /\ ~locked'
                     /\ tasks'[t].pc = IF tasks[t].w.res = Ok THEN "values"
                                       ELSE "done"]_vars

\* a task that has released the lock after its first definition is in the
\* middle of the write phase of its second, while the other task waits
\* for the lock
C13_Witness ==
    \E t \in Rids : \E u \in Rids \ {t} :
        /\ Writing(t) /\ tasks[t].j = 2
        /\ tasks[t].k >= 1 /\ tasks[t].k < Len(tasks[t].w.ops)
        /\ tasks[u].pc = "lock"

\* the storage error was raised: the call made the storage call that fails
Faulted == last.called /\ last.fault >= 1 /\ Len(last.ops) >= last.fault

\* the storage call that raised the storage error
FaultedOp == last.ops[last.fault]

\* C14: a call in which a storage call raises an error other than
\* TxConditionNotMet makes no storage call after it and returns that error:
\* in both writers a put_conditional that fails with such an error is
\* returned as that error and not as IndexExists.
C14_StorageErrorReturned ==
    Faulted =>
        /\ last.res = StorageError
        /\ Len(last.ops) = last.fault

\* ------------------------------------------------------------------------
\* Further properties of one call on the tables of Spec
\* ------------------------------------------------------------------------
\* the tuples of an expansion are pairwise distinct and their loop ends
Distinct(e) ==
    /\ e.end = "done"
    /\ \A a, b \in 1..Len(e.tuples) : e.tuples[a] = e.tuples[b] => a = b

\* C15: on a non-unique index an entry is stored under a key that holds its
\* owner, so that no put_conditional of one record finds the entry of
\* another: a call that puts distinct tuples on storage left by committed
\* calls succeeds on the index whatever the other records hold, two records
\* with the same tuple both hold an entry for it, and an IndexExists of the
\* non-unique writer names the record of the call.
C15_NoCrossRecordConflict ==
    \A j \in NonUniqueIxs :
        /\ \A e \in kv : e.k.ix = tb.ixs[j].name => e.k.id = Some(e.v)
        /\ (last.called /\ last.res.t = "IndexExists"
                /\ last.res.index = tb.ixs[j].name) =>
               /\ last.res.thing = last.rid
               /\ ~last.replay => ~Distinct(NewTuples(j))
        /\ Settled =>
               \A r1, r2 \in Rids :
                   \A t \in TupleSet(tb.ixs[j], View(r1))
                               \cap TupleSet(tb.ixs[j], View(r2)) :
                       /\ Get(kv, get_non_unique_index_key(tb.ixs[j], t, r1))
                              = Some(r1)
                       /\ Get(kv, get_non_unique_index_key(tb.ixs[j], t, r2))
                              = Some(r2)

\* a call put a tuple of a non-unique index that the other record held
\* already, and both entries are stored
C15_Witness ==
    /\ last.called /\ last.res = Ok /\ ~last.replay
    /\ \E j \in NonUniqueIxs : \E r1 \in Rids \ {last.rid} :
           \E i \in 1..Len(NewTuples(j).tuples) :
               /\ Get(last.kvcall,
                      get_non_unique_index_key(tb.ixs[j],
                                               NewTuples(j).tuples[i], r1))
                      = Some(r1)
               /\ Called("putc",
                         get_non_unique_index_key(tb.ixs[j],
                                                  NewTuples(j).tuples[i],
                                                  last.rid))
               /\ Get(kv, get_non_unique_index_key(tb.ixs[j],
                                                   NewTuples(j).tuples[i],
                                                   last.rid))
                      = Some(last.rid)
               /\ Get(kv, get_non_unique_index_key(tb.ixs[j],
                                                   NewTuples(j).tuples[i], r1))
                      = Some(r1)

\* the storage calls op of the call on keys of definition j
OpsOfKind(j, op) == {i \in OpsOf(j) : last.ops[i].op = op}

\* C16: among the storage calls of one definition's write phase every
\* delete_conditional comes before the first put_conditional (and so before
\* the get that follows a failed put).
C16_DeletesBeforePuts ==
    last.called =>
        \A j \in 1..Len(tb.ixs) :
            \A d \in OpsOfKind(j, "delc") :
                \A p \in OpsOfKind(j, "putc") \cup OpsOfKind(j, "get") : d < p

\* a write phase made several deletes and several puts
C16_Witness ==
    /\ last.called
    /\ \E j \in 1..Len(tb.ixs) :
           /\ Cardinality(OpsOfKind(j, "delc")) >= 2
           /\ Cardinality(OpsOfKind(j, "putc")) >= 2

\* the new tuples of definition j that its writer puts
Storable(j) ==
    {i \in 1..Len(NewTuples(j).tuples) :
         tb.ixs[j].index = "Uniq" =>
             ~is_all_none_or_null(NewTuples(j).tuples[i])}

\* the call made a delete_conditional on key, which another record owned
DeleteOfOthers(key) ==
    /\ Called("delc", key)
    /\ Get(last.kvcall, key) # NoneOpt
    /\ Get(last.kvcall, key) # Some(last.rid)

\* C17: a delete_conditional whose key is absent or owned by another record
\* changes nothing and does not end the call: without another storage
\* error the writer makes a delete for every old tuple and goes on to its
\* puts, and no call removes an entry another record owns; a delete that
\* fails with any other error ends the call with that error before a put
\* of the definition is made.
C17_DeleteConditionNotMet ==
    last.called =>
        /\ \A e \in last.kvcall : e.v # last.rid => e \in kv
        /\ last.fault = 0 =>
               \A j \in 1..Len(tb.ixs) :
                   Did("lock", j) /\ tb.ixs[j].index # "MTree" =>
                       /\ Cardinality(OpsOfKind(j, "delc"))
                              = Len(OldTuples(j).tuples)
                       /\ Storable(j) # {} => OpsOfKind(j, "putc") # {}
        /\ (Faulted /\ FaultedOp.op = "delc") =>
               /\ last.res = StorageError
               /\ Len(last.ops) = last.fault
               /\ \A i \in 1..Len(last.ops) :
                      last.ops[i].key.ix = FaultedOp.key.ix =>
                          last.ops[i].op = "delc"

\* a call made a delete on a key that another record owned, put a new
\* tuple after it and returned Ok, and the other record's entry is stored
C17_Witness ==
    /\ last.called /\ last.res = Ok
    /\ \E e \in last.kvcall :
           /\ DeleteOfOthers(e.k)
           /\ e \in kv
           /\ \E i \in 1..Len(last.ops) :
                  last.ops[i].op = "putc" /\ last.ops[i].key.ix = e.k.ix

\* C18: a call made on storage left by committed calls, whatever its old
\* and new values are (new values that yield a tuple more than once and
\* old and new values with tuples in common included), does not return
\* IndexExists whose thing is the record of the call.
C18_NoSelfConflict ==
    (last.called /\ ~last.replay) =>
        ~(last.res.t = "IndexExists" /\ last.res.thing = last.rid)

\* ------------------------------------------------------------------------
\* Further properties of a run of one Combinator
\* ------------------------------------------------------------------------
\* C19: the Combinator holds one iterator per column, a multi-iterator over
\* the elements when the column has no flatten marker and its value is an
\* array, and a single-iterator over the value in every other case; every
\* tuple it yields has one component per column, and at the column of a
\* single-iterator the value itself, unchanged.
C19_IteratorKinds ==
    /\ Len(comb.iterators) = Len(source)
    /\ \A i \in 1..Len(source) :
           /\ comb.iterators[i].multi <=> (~source[i].f /\ source[i].v.arr)
           /\ comb.iterators[i].val = source[i].v
           /\ ~comb.iterators[i].multi => comb.iterators[i].current = 0
    /\ \A k \in 1..Len(out) :
           /\ Len(out[k]) = Len(source)
           /\ \A i \in 1..Len(source) :
                  i \notin MultiCols => out[k][i] = source[i].v

\* a Combinator over a flattened array column and an expanded array column
\* has yielded two tuples
C19_Witness ==
    /\ Len(out) >= 2
    /\ \E i \in MultiCols : Len(source[i].v.v) = 2
    /\ \E i \in 1..Len(source) :
           source[i].f /\ source[i].v.arr /\ Len(source[i].v.v) = 2

\* the number of combinations of the expanded columns of src from column i
\* on, an empty array counted as one
RECURSIVE Combinations(_, _)
Combinations(src, i) ==
    IF i > Len(src) THEN 1
    ELSE (IF ~src[i].f /\ src[i].v.arr /\ Len(src[i].v.v) > 0
          THEN Len(src[i].v.v) ELSE 1) * Combinations(src, i + 1)

\* C20: the Combinator yields a finite sequence: the calls of next do not
\* fault, the first call yields a tuple (the one empty tuple when there is
\* no column), after no more tuples than there are combinations next
\* returns None, and once it has returned None it does so on every later
\* call.
C20_FiniteSequence ==
    /\ ~panicked
    /\ calls >= 1 => Len(out) >= 1
    /\ (Len(source) = 0 /\ calls >= 1) => out = << <<>> >>
    /\ calls > Combinations(source, 1) => ~lastSome
    /\ (calls >= 1 /\ ~lastSome) => ~comb.has_next
    /\ Len(out) < calls => ~lastSome

\* ------------------------------------------------------------------------
\* Record mutations on tables with a full-text index, under every option of
\* the caller and over a backend of which one call may return an error
\* ------------------------------------------------------------------------
FtSchemas ==
    { << DefineIndex("ft_name", "Search", <<Col("name", FALSE)>>) >>,
      << DefineIndex("ft_instr", "Search", <<Col("instrument", FALSE)>>),
         DefineIndex("uniq_name", "Uniq", <<Col("name", FALSE)>>) >> }

FtInit ==
    /\ overflow_checks = TRUE
    /\ CombIdle
    /\ tb \in {[drop |-> FALSE, ixs |-> s] : s \in FtSchemas}
    /\ rec = [r \in Rids |-> NoneOpt]
    /\ kv = {}
    /\ last = NoCall
    /\ TasksIdle

SpecFt == FtInit /\ [][EnvNext]_vars

SearchIxs == {j \in 1..Len(tb.ixs) : tb.ixs[j].index = "Search"}

\* the calls of the call on the backend of definition j, in their order
FtOps(j) ==
    SelectSeq(last.ops, LAMBDA x : x.key.ix = tb.ixs[j].name)

\* the calls a full-text writer that meets no error makes for definition j
FtExpected(j) ==
    << Op("get_db_analyzer", FtKey(tb.ixs[j], <<>>, last.rid)),
       Op("FtIndex::new(Write)", FtKey(tb.ixs[j], <<>>, last.rid)),
       IF last.current # NoneOpt
       THEN Op("index_document",
               FtKey(tb.ixs[j], LastNew(j)[1], last.rid))
       ELSE Op("remove_document", FtKey(tb.ixs[j], <<>>, last.rid)),
       Op("finish", FtKey(tb.ixs[j], <<>>, last.rid)) >>

\* a call on the backend of definition j returned the error
FtFaulted(j) == Faulted /\ FaultedOp.key.ix = tb.ixs[j].name

\* C21: the writer of a full-text definition resolves the analyzer, opens
\* the handle in write mode, calls index_document with the record and the
\* new values when the new values are present and remove_document with the
\* record when they are absent, and then finish, in this order and each
\* once; the old values appear in no call; a call that returns an error is
\* the last one of the writer, so that finish is made only after the three
\* before it succeeded, and the error is what the writer returns.
C21_FullTextWriter ==
    \A j \in SearchIxs :
        /\ Did("lock", j) =>
               /\ Len(FtOps(j)) \in 1..4
               /\ \A i \in 1..Len(FtOps(j)) : FtOps(j)[i] = FtExpected(j)[i]
               /\ Len(FtOps(j)) < 4 <=>
                      (FtFaulted(j) /\ FaultedOp.op # "finish")
               /\ FtFaulted(j) =>
                      /\ last.res = StorageError
                      /\ Len(last.ops) = last.fault
                      /\ FaultedOp = FtOps(j)[Len(FtOps(j))]
               /\ (\E i \in 1..Len(FtOps(j)) : FtOps(j)[i].op = "finish") =>
                      (FtFaulted(j) => FaultedOp.op = "finish")
        /\ (last.called /\ ~Did("lock", j)) => FtOps(j) = <<>>

\* an update that changed the values of a full-text definition made the
\* four calls with the new values and returned Ok
C21_Witness ==
    /\ last.called /\ last.res = Ok
    /\ last.initial # NoneOpt /\ last.current # NoneOpt
    /\ \E j \in SearchIxs :
           /\ LastOld(j) # LastNew(j)
           /\ FtOps(j) = FtExpected(j)

====
